---- MODULE Spec2Model ----
(***************************************************************************)
(* Model of the HR working-hours analysis front end: the HTTP client       *)
(* wrapper (src/src/lib/api.ts), the response shape adapter mapAnalysis    *)
(* and the page components that call them.                                 *)
(*                                                                         *)
(* JavaScript values are modelled as follows.                              *)
(*   - a number | null | undefined is a tagged record (Num, Null, Undef);  *)
(*   - an object is a function from field names to such values; a missing *)
(*     field is a name outside its DOMAIN;                                 *)
(*   - a string is a sequence of one-character strings;                    *)
(*   - the quotient computed by mapAnalysis is an exact fraction in lowest *)
(*     terms (the code computes it in IEEE double precision).              *)
(***************************************************************************)
EXTENDS Integers, Sequences, FiniteSets, TLC

\* ------------------------------------------------------------------------
\* Bounds of the model
\* ------------------------------------------------------------------------
MaxHours == 3
MaxBaseLen == 3
MaxPathTail == 2
MaxCalls == 5

VARIABLES
    env,        \* process.env.NEXT_PUBLIC_API_URL: [isSet, value]
    raw,        \* the argument handed to mapAnalysis
    mapped,     \* what mapAnalysis returned for it ([done, value])
    remapped,   \* what mapAnalysis returned for its own output
    params,     \* the argument handed to analysisApi.create
    path,       \* the path handed to api / apiForm
    url,        \* the URL api / apiForm hands to fetch ([done, mode, value])
    route,      \* the page that is mounted
    param,      \* useParams().id of the mounted page
    ui,         \* the useState cells of the mounted page
    calls,      \* the client wrapper calls made so far, in the order issued
    mountState, \* the mount effect's fetch: idle, pending, done
    escaped     \* a handler's promise rejected with nobody to catch it

vars == <<env, raw, mapped, remapped, params, path, url, route, param, ui,
          calls, mountState, escaped>>
harness == <<raw, mapped, remapped, params, path, url>>

\* ------------------------------------------------------------------------
\* JavaScript values
\* ------------------------------------------------------------------------
Num(n) == [t |-> "num", v |-> n]
Null == [t |-> "null", v |-> 0]
Undef == [t |-> "undefined", v |-> 0]

\* obj.k: undefined when the object has no such field
Get(obj, k) == IF k \in DOMAIN obj THEN obj[k] ELSE Undef

\* x ?? d on a number | null | undefined
NullishOr(x, d) == IF x.t = "num" THEN x.v ELSE d

\* all strings over alphabet A of length at most n
StringsUpTo(A, n) == UNION {[1..k -> A] : k \in 0..n}

Abs(n) == IF n < 0 THEN -n ELSE n

RECURSIVE GCD(_, _)
GCD(a, b) == IF b = 0 THEN a ELSE GCD(b, a % b)

\* the fraction n/d (d > 0) in lowest terms
Frac(n, d) ==
    LET g == GCD(Abs(n), d)
    IN  [num |-> n \div g, den |-> d \div g]

\* ------------------------------------------------------------------------
\* Response shape adapter
\* ------------------------------------------------------------------------
\* (actual / theoretical) * 100, for theoretical > 0
Quotient100(actual, theoretical) == Frac(actual * 100, theoretical)

\* a plausible slip: the percentage capped at 100
mapAnalysis_clamped(r) ==
    LET theoretical == NullishOr(Get(r, "theoretical_working_hours"), 0)
        actual == NullishOr(Get(r, "actual_working_hours"), 0)
        efficiency == IF theoretical > 0
                      THEN IF actual > theoretical THEN Frac(100, 1)
                           ELSE Quotient100(actual, theoretical)
                      ELSE Frac(0, 1)
    IN  [id |-> Get(r, "id"),
         employee_id |-> Get(r, "employee_id"),
         year |-> Get(r, "year"),
         theoretical_hours |-> Num(theoretical),
         actual_hours |-> Num(actual),
         efficiency_percentage |-> efficiency,
         created_at |-> Get(r, "created_at")]

\* a plausible slip: the division guard dropped for a missing divisor, the
\* raw field copied through instead of the defaulted value
mapAnalysis_unguarded(r) ==
    LET theoretical == NullishOr(Get(r, "theoretical_working_hours"), 1)
        actual == NullishOr(Get(r, "actual_working_hours"), 0)
        efficiency == IF theoretical > 0
                      THEN Quotient100(actual, theoretical)
                      ELSE Frac(0, 1)
    IN  [id |-> Get(r, "id"),
         employee_id |-> Get(r, "employee_id"),
         year |-> Get(r, "year"),
         theoretical_hours |-> Num(theoretical),
         actual_hours |-> Num(actual),
         efficiency_percentage |-> efficiency,
         created_at |-> Get(r, "created_at")]

mapAnalysis(r) ==
    LET theoretical == NullishOr(Get(r, "theoretical_working_hours"), 0)
        actual == NullishOr(Get(r, "actual_working_hours"), 0)
        efficiency == IF theoretical > 0
                      THEN Quotient100(actual, theoretical)
                      ELSE Frac(0, 1)
    IN  [id |-> Get(r, "id"),
         employee_id |-> Get(r, "employee_id"),
         year |-> Get(r, "year"),
         theoretical_hours |-> Num(theoretical),
         actual_hours |-> Num(actual),
         efficiency_percentage |-> efficiency,
         created_at |-> Get(r, "created_at")]

\* ------------------------------------------------------------------------
\* Request URL
\* ------------------------------------------------------------------------
EnvUnset == [isSet |-> FALSE, value |-> <<>>]
EnvOf(s) == [isSet |-> TRUE, value |-> s]

\* process.env.NEXT_PUBLIC_API_URL ?? ""
getBaseUrl(e) == IF e.isSet THEN e.value ELSE <<>>

\* a plausible slip: the trailing slash left in place
StripTrailingSlash_kept(s) == s

\* s.replace(/\/$/, "")
StripTrailingSlash(s) ==
    IF Len(s) > 0 /\ s[Len(s)] = "/" THEN SubSeq(s, 1, Len(s) - 1) ELSE s

baseUrl(e) == StripTrailingSlash(getBaseUrl(e))

\* the url api() hands to fetchWithTimeout
apiUrl(e, p) == IF getBaseUrl(e) # <<>> THEN baseUrl(e) \o p ELSE p

\* the url apiForm() hands to fetchWithTimeout
apiFormUrl(e, p) == IF getBaseUrl(e) # <<>> THEN baseUrl(e) \o p ELSE p

\* ------------------------------------------------------------------------
\* Inputs of the adapter and of the URL construction
\* ------------------------------------------------------------------------
HourNumbers == (-1 .. MaxHours) \cup {50, 144, 160}
HourValues == {Undef, Null} \cup {Num(n) : n \in HourNumbers}

\* a raw analysis as the backend sends it; an Undef hour field is left out
RawAnalysis(id, employee_id, year, th, ac) ==
    LET base == [id |-> Num(id), employee_id |-> Num(employee_id),
                 year |-> Num(year)]
        f1 == IF th.t = "undefined" THEN base
              ELSE base @@ ("theoretical_working_hours" :> th)
    IN  IF ac.t = "undefined" THEN f1
        ELSE f1 @@ ("actual_working_hours" :> ac)

NoRaw == [id |-> Null]
NotMapped == [done |-> FALSE, value |-> NoRaw]
NoParams == [employee_id |-> Num(0)]
NoUrl == [done |-> FALSE, mode |-> "none", value |-> <<>>]

ExampleBase ==
    <<"h","t","t","p","s",":","/","/","a","p","i",".","e","x","a","m","p",
      "l","e",".","c","o","m","/">>
ExamplePath == <<"/","a","p","i","/","e","m","p","l","o","y","e","e","s">>
ExampleUrl ==
    <<"h","t","t","p","s",":","/","/","a","p","i",".","e","x","a","m","p",
      "l","e",".","c","o","m","/","a","p","i","/","e","m","p","l","o","y",
      "e","e","s">>

BaseStrings == StringsUpTo({"h", "/"}, MaxBaseLen) \cup {ExampleBase}
EnvValues == {EnvUnset} \cup {EnvOf(s) : s \in BaseStrings}
Paths == {<<"/">> \o s : s \in StringsUpTo({"a", "/"}, MaxPathTail)}
             \cup {ExamplePath}

\* ------------------------------------------------------------------------
\* Strings and numbers
\* ------------------------------------------------------------------------
RECURSIVE TrimStart(_)
TrimStart(s) == IF Len(s) > 0 /\ s[1] = " " THEN TrimStart(Tail(s)) ELSE s

RECURSIVE TrimEnd(_)
TrimEnd(s) ==
    IF Len(s) > 0 /\ s[Len(s)] = " "
    THEN TrimEnd(SubSeq(s, 1, Len(s) - 1)) ELSE s

\* String.prototype.trim
Trim(s) == TrimEnd(TrimStart(s))

DigitChars == <<"0", "1", "2", "3", "4", "5", "6", "7", "8", "9">>
IsDigit(c) == \E k \in 1..10 : DigitChars[k] = c
DigitValue(c) == (CHOOSE k \in 1..10 : DigitChars[k] = c) - 1

RECURSIVE DigitPrefixValue(_, _)
DigitPrefixValue(s, acc) ==
    IF Len(s) > 0 /\ IsDigit(s[1])
    THEN DigitPrefixValue(Tail(s), acc * 10 + DigitValue(s[1]))
    ELSE acc

NaN == [t |-> "nan", v |-> 0]

\* parseInt(s, 10): leading blanks, a sign, the longest run of digits
parseInt(s) ==
    LET t == TrimStart(s)
        neg == Len(t) > 0 /\ t[1] = "-"
        u == IF Len(t) > 0 /\ t[1] \in {"-", "+"} THEN Tail(t) ELSE t
    IN  IF Len(u) = 0 \/ ~IsDigit(u[1]) THEN NaN
        ELSE Num(IF neg THEN -DigitPrefixValue(u, 0)
                 ELSE DigitPrefixValue(u, 0))

RECURSIVE NatToString(_)
NatToString(n) ==
    IF n < 10 THEN <<DigitChars[n + 1]>>
    ELSE NatToString(n \div 10) \o <<DigitChars[(n % 10) + 1]>>

\* String(n) of an integer
NumToString(n) == IF n < 0 THEN <<"-">> \o NatToString(-n) ELSE NatToString(n)

\* ------------------------------------------------------------------------
\* What the backend may answer
\* ------------------------------------------------------------------------
Ada == [id |-> Num(1), name |-> "Ada", surname |-> "Lovelace"]
Bob == [id |-> Num(2), name |-> "Bob", surname |-> "Kaya"]
Cem == [id |-> Num(3), name |-> "Cem", surname |-> "Kara"]
EmployeeLists == {<<>>, <<Ada>>, <<Ada, Bob>>}

RawA == RawAnalysis(5, 1, 2024, Num(2000), Num(1800))
RawB == RawAnalysis(6, 7, 2024, Null, Num(50))
RawAnalysisLists == {<<>>, <<RawA>>, <<RawA, RawB>>}

\* what res.json() produces: a rejection (Malformed) or a parsed value
Malformed == [kind |-> "malformed", items |-> <<>>]
JsonNull == [kind |-> "null", items |-> <<>>]
JsonNoField == [kind |-> "nofield", items |-> <<>>]
JsonList(l) == [kind |-> "list", items |-> l]
JsonObject(o) == [kind |-> "object", items |-> <<o>>]

ListApis == {"employeeApi.getAll", "analysisApi.getAll"}

BodiesOf(a) ==
    CASE a = "employeeApi.getAll" ->
             {JsonList(l) : l \in EmployeeLists}
                 \cup {JsonNoField, JsonNull, Malformed}
      [] a = "analysisApi.getAll" ->
             {JsonList(l) : l \in RawAnalysisLists}
                 \cup {JsonNoField, JsonNull, Malformed}
      [] a = "analysisApi.getById" ->
             {JsonObject(RawA), JsonObject(RawB), JsonNull, Malformed}
      [] a = "employeeApi.create" ->
             {JsonObject(Cem), JsonNull, Malformed}
      [] OTHER ->
             {JsonObject(RawA), JsonNull, Malformed}

Apis ==
    {"employeeApi.getAll", "employeeApi.create", "analysisApi.getAll",
     "analysisApi.getById", "analysisApi.create"}
AllBodies == UNION {BodiesOf(a) : a \in Apis}

\* ------------------------------------------------------------------------
\* Client wrapper
\* ------------------------------------------------------------------------
\* what a wrapper call returns
ListVal(l) == [t |-> "list", items |-> l]
ObjVal(o) == [t |-> "obj", items |-> <<o>>]
NullVal == [t |-> "null", items |-> <<>>]
NoValue == [t |-> "none", items |-> <<>>]
Truthy(v) == v.t \in {"list", "obj"}

PathEmployees == ExamplePath
PathAnalyses == <<"/","a","p","i","/","a","n","a","l","y","s","e","s">>
PathAnalysis(id) == PathAnalyses \o <<"/">> \o NumToString(id)

API_TIMEOUT_MS == 12000

JsonContentType == "application/json"
NoContentType == "(none)"

\* fetchWithTimeout: the controller and its timer are set up, fetch is called
fetchWithTimeout(a, task, method, u, contentType, body) ==
    [api |-> a, task |-> task, method |-> method, url |-> u,
     contentType |-> contentType, body |-> body,
     timeoutMs |-> API_TIMEOUT_MS,
     phase |-> "fetch", timer |-> "armed", fetch |-> "pending",
     outcome |-> "pending", value |-> NoValue]

\* api(path): JSON mode, method left to fetch's default
api(e, a, task, p) ==
    fetchWithTimeout(a, task, "GET", apiUrl(e, p), JsonContentType, <<>>)

\* a plausible slip: apiForm built on api(), which adds the JSON header
apiForm_json(e, a, task, p, body) ==
    fetchWithTimeout(a, task, "POST", apiFormUrl(e, p), JsonContentType, body)

\* apiForm(path, body): form mode, no content type
apiForm(e, a, task, p, body) ==
    fetchWithTimeout(a, task, "POST", apiFormUrl(e, p), NoContentType, body)

employeeApi_getAll(e, task) == api(e, "employeeApi.getAll", task, PathEmployees)

employeeApi_create(e, name, surname) ==
    apiForm(e, "employeeApi.create", "submit", PathEmployees,
            << <<"name", name>>, <<"surname", surname>> >>)

analysisApi_getAll(e, task) == api(e, "analysisApi.getAll", task, PathAnalyses)

analysisApi_getById(e, id, task) ==
    api(e, "analysisApi.getById", task, PathAnalysis(id))

\* the "[]" that holidays_data defaults to
EmptyJsonArray == <<"[", "]">>

\* params.holidays_data ?? "[]"
HolidaysOf(ps) ==
    IF "holidays_data" \in DOMAIN ps THEN ps.holidays_data ELSE EmptyJsonArray

\* `if (params.attendance_file)`: a File, not null and not left out
HasFile(ps) == "attendance_file" \in DOMAIN ps /\ ps.attendance_file = "file"

\* a plausible slip: the optional numbers appended without `?? 0`
analysisApi_create_form_nodefault(ps) ==
    LET str(k) == IF Get(ps, k).t = "num" THEN NumToString(Get(ps, k).v)
                  ELSE <<"u", "n", "d", "e", "f", "i", "n", "e", "d">>
    IN  << <<"employee_id", NumToString(ps.employee_id.v)>>,
           <<"year", NumToString(ps.year.v)>>,
           <<"daily_working_hours", NumToString(ps.daily_working_hours.v)>>,
           <<"weekly_working_days", NumToString(ps.weekly_working_days.v)>>,
           <<"annual_leave_total", str("annual_leave_total")>>,
           <<"annual_leave_used", str("annual_leave_used")>>,
           <<"extra_leave_days", str("extra_leave_days")>>,
           <<"holidays_data", HolidaysOf(ps)>> >>
        \o (IF HasFile(ps) THEN << <<"attendance_file", <<"file">> >> >>
            ELSE <<>>)

\* the FormData analysisApi.create builds, as (name, value) entries in the
\* order appended
analysisApi_create_form(ps) ==
    << <<"employee_id", NumToString(ps.employee_id.v)>>,
       <<"year", NumToString(ps.year.v)>>,
       <<"daily_working_hours", NumToString(ps.daily_working_hours.v)>>,
       <<"weekly_working_days", NumToString(ps.weekly_working_days.v)>>,
       <<"annual_leave_total",
         NumToString(NullishOr(Get(ps, "annual_leave_total"), 0))>>,
       <<"annual_leave_used",
         NumToString(NullishOr(Get(ps, "annual_leave_used"), 0))>>,
       <<"extra_leave_days",
         NumToString(NullishOr(Get(ps, "extra_leave_days"), 0))>>,
       <<"holidays_data", HolidaysOf(ps)>> >>
    \o (IF HasFile(ps) THEN << <<"attendance_file", <<"file">> >> >>
        ELSE <<>>)

analysisApi_create(e, ps) ==
    apiForm(e, "analysisApi.create", "submit", PathAnalyses,
            analysisApi_create_form(ps))

\* clearTimeout(id)
clearTimeout(timer) == IF timer = "armed" THEN "cleared" ELSE timer

\* `if (!res.ok) return []` of the list calls, `return null` of the others
NotOkValue(a) == IF a \in ListApis THEN ListVal(<<>>) ELSE NullVal

\* a plausible slip: the wrapper catches a rejected fetch itself and returns
\* what it returns for a refused request
AfterFetch_sentinel(c, res) ==
    LET c1 == [c EXCEPT !.fetch = res, !.timer = clearTimeout(c.timer)]
    IN  IF res = "ok" THEN [c1 EXCEPT !.phase = "json"]
        ELSE [c1 EXCEPT !.phase = "settled", !.outcome = "resolved",
                        !.value = NotOkValue(c.api)]

\* a plausible slip: the wrapper throws on a response that is not ok
AfterFetch_throwOnNotOk(c, res) ==
    LET c1 == [c EXCEPT !.fetch = res, !.timer = clearTimeout(c.timer)]
    IN  IF res = "ok" THEN [c1 EXCEPT !.phase = "json"]
        ELSE [c1 EXCEPT !.phase = "settled", !.outcome = "rejected"]

\* a plausible slip: the timer cleared in then() instead of finally(), so
\* not when the fetch rejects
AfterFetch_clearOnResponse(c, res) ==
    LET c1 == [c EXCEPT !.fetch = res]
        c2 == [c1 EXCEPT !.timer = clearTimeout(c.timer)]
    IN  CASE res = "ok" -> [c2 EXCEPT !.phase = "json"]
          [] res = "notok" ->
                 [c2 EXCEPT !.phase = "settled", !.outcome = "resolved",
                            !.value = NotOkValue(c.api)]
          [] OTHER ->
                 [c1 EXCEPT !.phase = "settled", !.outcome = "rejected"]

\* The fetch promise settles with res ("ok", "notok": a response came;
\* "network", "abort": it rejected).  finally() clears the timer, then the
\* wrapper runs up to its next await or to its end.
AfterFetch(c, res) ==
    LET c1 == [c EXCEPT !.fetch = res, !.timer = clearTimeout(c.timer)]
    IN  CASE res = "ok" -> [c1 EXCEPT !.phase = "json"]
          [] res = "notok" ->
                 [c1 EXCEPT !.phase = "settled", !.outcome = "resolved",
                            !.value = NotOkValue(c.api)]
          [] OTHER ->
                 [c1 EXCEPT !.phase = "settled", !.outcome = "rejected"]

MapAll(l) == [k \in 1..Len(l) |-> mapAnalysis(l[k])]

Rejected == [outcome |-> "rejected", value |-> NoValue]
Resolved(v) == [outcome |-> "resolved", value |-> v]

\* what the wrapper returns once res.json() has settled with body
JsonResult(a, body) ==
    IF body.kind = "malformed" THEN Rejected
    ELSE CASE a = "employeeApi.getAll" ->
                  IF body.kind = "null" THEN Rejected
                  ELSE Resolved(ListVal(IF body.kind = "list"
                                        THEN body.items ELSE <<>>))
           [] a = "analysisApi.getAll" ->
                  IF body.kind = "null" THEN Rejected
                  ELSE Resolved(ListVal(MapAll(IF body.kind = "list"
                                               THEN body.items ELSE <<>>)))
           [] a = "employeeApi.create" ->
                  IF body.kind = "null" THEN Resolved(NullVal)
                  ELSE Resolved(ObjVal(body.items[1]))
           [] OTHER ->
                  IF body.kind = "null" THEN Rejected
                  ELSE Resolved(ObjVal(mapAnalysis(body.items[1])))

AfterJson(c, body) ==
    LET r == JsonResult(c.api, body)
    IN  [c EXCEPT !.phase = "settled", !.outcome = r.outcome,
                  !.value = r.value]

\* The abort signal fires while the call is not settled: the pending fetch
\* or body read rejects.
AfterAbort(c) ==
    IF c.phase = "fetch" THEN AfterFetch([c EXCEPT !.timer = "fired"], "abort")
    ELSE IF c.phase = "json"
         THEN [c EXCEPT !.timer = "fired", !.phase = "settled",
                        !.outcome = "rejected"]
         ELSE [c EXCEPT !.timer = "fired"]

\* hasBackendUrl(), in the browser
hasBackendUrl(e) == e.isSet /\ Trim(e.value) # <<>>

\* ------------------------------------------------------------------------
\* Pages
\* ------------------------------------------------------------------------
Routes == {"home", "reports", "reportDetail", "employees", "analysis"}
JoinRoutes == {"home", "reports", "reportDetail"}
FormRoutes == {"employees", "analysis"}

CurrentYear == 2024

NoMessage == [type |-> "none", text |-> ""]
Ok(text) == [type |-> "ok", text |-> text]
Err(text) == [type |-> "err", text |-> text]

MsgRequestFailed == "Istek basarisiz."
MsgNameRequired == "Ad ve soyad girin."
MsgEmployeeAdded == "Calisan eklendi."
MsgEmployeeBackend ==
    "Backend'e baglanilamadi. API URL ayarlandigindan emin olun."
MsgSelectEmployee == "Calisan secin."
MsgAnalysisCreated ==
    "Analiz olusturuldu. Raporlar sayfasindan goruntuleyebilirsiniz."
MsgAnalysisBackend ==
    "Backend'e baglanilamadi veya istek reddedildi. API URL ve backend loglarini kontrol edin."

InitialForm ==
    [employee_id |-> 0, year |-> CurrentYear, daily_working_hours |-> 9,
     weekly_working_days |-> 5, annual_leave_total |-> 14,
     annual_leave_used |-> 0, extra_leave_days |-> 0,
     attendance_file |-> "null"]

\* the useState initial values of the pages
InitialUi ==
    [loading |-> TRUE, employees |-> <<>>, analyses |-> <<>>,
     analysis |-> NullVal, notFound |-> FALSE, name |-> <<>>,
     surname |-> <<>>, submitting |-> FALSE, message |-> NoMessage,
     form |-> InitialForm]

\* `data || []`
OrEmpty(v) == IF v.t = "list" THEN v.items ELSE <<>>

\* a handler's outcome: the new state, whether its promise rejected, and
\* whether it called fetchData() again
Handled(u, refetch) == [ui |-> u, rejected |-> FALSE, refetch |-> refetch]
Thrown(u) == [ui |-> u, rejected |-> TRUE, refetch |-> FALSE]

\* a plausible slip: no catch clause, the finally clause alone
EmployeesPage_fetchData_nocatch(u, r) ==
    IF r.outcome = "resolved"
    THEN Handled([u EXCEPT !.employees = OrEmpty(r.value),
                           !.loading = FALSE], FALSE)
    ELSE Thrown([u EXCEPT !.loading = FALSE])

\* a plausible slip: setLoading(false) at the end of the try block instead
\* of in a finally clause
EmployeesPage_fetchData_nofinally(u, r) ==
    IF r.outcome = "resolved"
    THEN Handled([u EXCEPT !.employees = OrEmpty(r.value),
                           !.loading = FALSE], FALSE)
    ELSE Handled([u EXCEPT !.employees = <<>>], FALSE)

\* EmployeesPage.fetchData once employeeApi.getAll() has settled as r
EmployeesPage_fetchData(u, r) ==
    IF r.outcome = "resolved"
    THEN Handled([u EXCEPT !.employees = OrEmpty(r.value),
                           !.loading = FALSE], FALSE)
    ELSE Handled([u EXCEPT !.employees = <<>>, !.loading = FALSE], FALSE)

\* AnalysisPage fetchData once employeeApi.getAll() has settled as r; the
\* closure reads the form of the first render, whose employee_id is 0
AnalysisPage_fetchData(u, r) ==
    IF r.outcome = "resolved"
    THEN LET data == OrEmpty(r.value)
             u1 == [u EXCEPT !.employees = data]
             u2 == IF Len(data) > 0 /\ InitialForm.employee_id = 0
                   THEN [u1 EXCEPT !.form.employee_id = data[1].id.v]
                   ELSE u1
         IN  Handled([u2 EXCEPT !.loading = FALSE], FALSE)
    ELSE Handled([u EXCEPT !.employees = <<>>, !.loading = FALSE], FALSE)

\* a plausible slip: the catch clause resets the analyses alone
ReportsPage_fetchData_partial(u, a, e) ==
    IF a.outcome = "resolved" /\ e.outcome = "resolved"
    THEN Handled([u EXCEPT !.analyses = OrEmpty(a.value),
                           !.employees = OrEmpty(e.value),
                           !.loading = FALSE], FALSE)
    ELSE Handled([u EXCEPT !.analyses = <<>>,
                           !.employees = IF e.outcome = "resolved"
                                         THEN OrEmpty(e.value) ELSE <<>>,
                           !.loading = FALSE], FALSE)

\* ReportsPage fetchData once Promise.all has settled: a and e
\* are the two calls, both resolved or at least one rejected
ReportsPage_fetchData(u, a, e) ==
    IF a.outcome = "resolved" /\ e.outcome = "resolved"
    THEN Handled([u EXCEPT !.analyses = OrEmpty(a.value),
                           !.employees = OrEmpty(e.value),
                           !.loading = FALSE], FALSE)
    ELSE Handled([u EXCEPT !.analyses = <<>>, !.employees = <<>>,
                           !.loading = FALSE], FALSE)

\* HomePage fetchData once Promise.all has settled: a and e
\* are the two calls, both resolved or at least one rejected
HomePage_fetchData(u, a, e) ==
    IF a.outcome = "resolved" /\ e.outcome = "resolved"
    THEN Handled([u EXCEPT !.analyses = OrEmpty(a.value),
                           !.employees = OrEmpty(e.value),
                           !.loading = FALSE], FALSE)
    ELSE Handled([u EXCEPT !.analyses = <<>>, !.employees = <<>>,
                           !.loading = FALSE], FALSE)

\* ReportDetailPage fetchData once Promise.all has settled
ReportDetailPage_fetchData(u, a, e) ==
    IF a.outcome = "resolved" /\ e.outcome = "resolved"
    THEN LET u1 == [u EXCEPT !.analysis = IF a.value.t = "obj"
                                          THEN a.value ELSE NullVal,
                             !.employees = OrEmpty(e.value)]
             u2 == IF ~Truthy(a.value) THEN [u1 EXCEPT !.notFound = TRUE]
                   ELSE u1
         IN  Handled([u2 EXCEPT !.loading = FALSE], FALSE)
    ELSE Handled([u EXCEPT !.notFound = TRUE, !.loading = FALSE], FALSE)

\* the id ReportDetailPage computes from the route
RouteId(p) == IF p.isString THEN parseInt(p.value) ELSE NaN

\* `!id || isNaN(id)`
InvalidId(id) == id.t = "nan" \/ id.v = 0

\* a plausible slip: setSubmitting(true) left out
EmployeesPage_handleSubmit_noflag(u) ==
    IF Trim(u.name) = <<>> \/ Trim(u.surname) = <<>>
    THEN [ui |-> [u EXCEPT !.message = Err(MsgNameRequired)], send |-> FALSE]
    ELSE [ui |-> [u EXCEPT !.message = NoMessage], send |-> TRUE]

\* a plausible slip: the fields tested without trim()
EmployeesPage_handleSubmit_notrim(u) ==
    IF u.name = <<>> \/ u.surname = <<>>
    THEN [ui |-> [u EXCEPT !.message = Err(MsgNameRequired)], send |-> FALSE]
    ELSE [ui |-> [u EXCEPT !.submitting = TRUE, !.message = NoMessage],
          send |-> TRUE]

\* EmployeesPage.handleSubmit up to its await: [ui, send]
EmployeesPage_handleSubmit(u) ==
    IF Trim(u.name) = <<>> \/ Trim(u.surname) = <<>>
    THEN [ui |-> [u EXCEPT !.message = Err(MsgNameRequired)], send |-> FALSE]
    ELSE [ui |-> [u EXCEPT !.submitting = TRUE, !.message = NoMessage],
          send |-> TRUE]

\* a plausible slip: the spinner turned on again for the re-fetch
EmployeesPage_afterCreate_reload(u, r) ==
    IF r.outcome = "resolved"
    THEN IF Truthy(r.value)
         THEN Handled([u EXCEPT !.name = <<>>, !.surname = <<>>,
                                !.message = Ok(MsgEmployeeAdded),
                                !.loading = TRUE,
                                !.submitting = FALSE], TRUE)
         ELSE Handled([u EXCEPT !.message = Err(MsgEmployeeBackend),
                                !.submitting = FALSE], FALSE)
    ELSE Handled([u EXCEPT !.message = Err(MsgRequestFailed),
                           !.submitting = FALSE], FALSE)

\* a plausible slip: fetchData() called after the if, on every outcome that
\* resolves
EmployeesPage_afterCreate_refetchAlways(u, r) ==
    IF r.outcome = "resolved"
    THEN IF Truthy(r.value)
         THEN Handled([u EXCEPT !.name = <<>>, !.surname = <<>>,
                                !.message = Ok(MsgEmployeeAdded),
                                !.submitting = FALSE], TRUE)
         ELSE Handled([u EXCEPT !.message = Err(MsgEmployeeBackend),
                                !.submitting = FALSE], TRUE)
    ELSE Handled([u EXCEPT !.message = Err(MsgRequestFailed),
                           !.submitting = FALSE], FALSE)

\* a plausible slip: setSubmitting(false) at the end of the try block
\* instead of in a finally clause
EmployeesPage_afterCreate_nofinally(u, r) ==
    IF r.outcome = "resolved"
    THEN IF Truthy(r.value)
         THEN Handled([u EXCEPT !.name = <<>>, !.surname = <<>>,
                                !.message = Ok(MsgEmployeeAdded),
                                !.submitting = FALSE], TRUE)
         ELSE Handled([u EXCEPT !.message = Err(MsgEmployeeBackend),
                                !.submitting = FALSE], FALSE)
    ELSE Handled([u EXCEPT !.message = Err(MsgRequestFailed)], FALSE)

\* EmployeesPage.handleSubmit once employeeApi.create() has settled as r
EmployeesPage_afterCreate(u, r) ==
    IF r.outcome = "resolved"
    THEN IF Truthy(r.value)
         THEN Handled([u EXCEPT !.name = <<>>, !.surname = <<>>,
                                !.message = Ok(MsgEmployeeAdded),
                                !.submitting = FALSE], TRUE)
         ELSE Handled([u EXCEPT !.message = Err(MsgEmployeeBackend),
                                !.submitting = FALSE], FALSE)
    ELSE Handled([u EXCEPT !.message = Err(MsgRequestFailed),
                           !.submitting = FALSE], FALSE)

\* the object AnalysisPage.handleSubmit hands to analysisApi.create
AnalysisPage_createParams(form) ==
    [employee_id |-> Num(form.employee_id),
     year |-> Num(form.year),
     daily_working_hours |-> Num(form.daily_working_hours),
     weekly_working_days |-> Num(form.weekly_working_days),
     annual_leave_total |-> Num(form.annual_leave_total),
     annual_leave_used |-> Num(form.annual_leave_used),
     extra_leave_days |-> Num(form.extra_leave_days),
     attendance_file |-> form.attendance_file]

\* AnalysisPage.handleSubmit up to its await: [ui, send]
AnalysisPage_handleSubmit(u) ==
    IF u.form.employee_id = 0
    THEN [ui |-> [u EXCEPT !.message = Err(MsgSelectEmployee)], send |-> FALSE]
    ELSE [ui |-> [u EXCEPT !.submitting = TRUE, !.message = NoMessage],
          send |-> TRUE]

\* a plausible slip: the whole form reset after a successful create
AnalysisPage_afterCreate_resetForm(u, r) ==
    IF r.outcome = "resolved"
    THEN IF Truthy(r.value)
         THEN Handled([u EXCEPT !.message = Ok(MsgAnalysisCreated),
                                !.form = InitialForm,
                                !.submitting = FALSE], FALSE)
         ELSE Handled([u EXCEPT !.message = Err(MsgAnalysisBackend),
                                !.submitting = FALSE], FALSE)
    ELSE Handled([u EXCEPT !.message = Err(MsgRequestFailed),
                           !.submitting = FALSE], FALSE)

\* AnalysisPage.handleSubmit once analysisApi.create() has settled as r
AnalysisPage_afterCreate(u, r) ==
    IF r.outcome = "resolved"
    THEN IF Truthy(r.value)
         THEN Handled([u EXCEPT !.message = Ok(MsgAnalysisCreated),
                                !.form.attendance_file = "null",
                                !.submitting = FALSE], FALSE)
         ELSE Handled([u EXCEPT !.message = Err(MsgAnalysisBackend),
                                !.submitting = FALSE], FALSE)
    ELSE Handled([u EXCEPT !.message = Err(MsgRequestFailed),
                           !.submitting = FALSE], FALSE)

\* ------------------------------------------------------------------------
\* What a page renders
\* ------------------------------------------------------------------------
ShowsSpinner == ui.loading

\* the "Backend bagli degil" warning of the two form pages
ShowsBackendWarning ==
    ~ui.loading /\ route \in FormRoutes /\ ~hasBackendUrl(env)

\* a plausible slip: the form rendered whatever the configuration
ShowsForm_ungated ==
    /\ ~ui.loading
    /\ \/ route = "employees"
       \/ route = "analysis" /\ Len(ui.employees) > 0

\* the form of the employees page or of the analysis page
ShowsForm ==
    /\ ~ui.loading
    /\ hasBackendUrl(env)
    /\ \/ route = "employees"
       \/ route = "analysis" /\ Len(ui.employees) > 0

\* the "report not found" view of the detail page
ShowsNotFound ==
    route = "reportDetail" /\ ~ui.loading
        /\ (ui.notFound \/ ~Truthy(ui.analysis))

\* the empty-state message instead of a table (the analysis page asks for
\* an employee to be added first)
ShowsEmptyState ==
    /\ ~ui.loading
    /\ CASE route \in {"home", "reports"} -> Len(ui.analyses) = 0
         [] route = "employees" -> Len(ui.employees) = 0
         [] route = "analysis" -> hasBackendUrl(env) /\ Len(ui.employees) = 0
         [] OTHER -> FALSE

\* the table of the list pages
ShowsTable ==
    /\ ~ui.loading
    /\ CASE route \in {"home", "reports"} -> Len(ui.analyses) > 0
         [] route = "employees" -> Len(ui.employees) > 0
         [] OTHER -> FALSE

\* the card of the detail page
ShowsDetail ==
    route = "reportDetail" /\ ~ui.loading
        /\ ~(ui.notFound \/ ~Truthy(ui.analysis))

\* the name shown for an analysis whose employee is not among those fetched
Placeholder == "Bilinmiyor"

\* employees.find((x) => x.id === employeeId): the index of the first match,
\* 0 when there is none
FindEmployee(employees, employeeId) ==
    LET m == {j \in 1..Len(employees) : employees[j].id = employeeId}
    IN  IF m = {} THEN 0 ELSE CHOOSE j \in m : \A i \in m : j <= i

\* a plausible slip: the name alone, as on the home page
ReportsPage_getEmployeeName_nameOnly(employees, employeeId) ==
    LET j == FindEmployee(employees, employeeId)
    IN  IF j = 0 THEN Placeholder ELSE employees[j].name

\* getEmployeeName of the reports page and of the detail page
ReportsPage_getEmployeeName(employees, employeeId) ==
    LET j == FindEmployee(employees, employeeId)
    IN  IF j = 0 THEN Placeholder
        ELSE employees[j].name \o " " \o employees[j].surname

\* getEmployeeName of the home page: `employee?.name || "Bilinmiyor"`
HomePage_getEmployeeName(employees, employeeId) ==
    LET j == FindEmployee(employees, employeeId)
    IN  IF j = 0 \/ employees[j].name = "" THEN Placeholder
        ELSE employees[j].name

\* x.toFixed(1) of the fraction x: the nearest multiple of 1/10, the larger
\* one of two equally near (the code rounds the double nearest to x, which
\* can differ from this on an exact tie)
ToFixed1(x) ==
    LET n == (20 * Abs(x.num) + x.den) \div (2 * x.den)
    IN  (IF x.num < 0 THEN <<"-">> ELSE <<>>)
            \o NatToString(n \div 10) \o <<".">> \o NatToString(n % 10)

\* the cells of a table row the claims speak of
ReportRow(name, a) ==
    [employee |-> name, year |-> a.year,
     efficiency |-> ToFixed1(a.efficiency_percentage) \o <<"%">>]

\* analyses.map(...) of the reports page
ReportsPage_rows ==
    [k \in 1..Len(ui.analyses) |->
        ReportRow(ReportsPage_getEmployeeName(ui.employees,
                                              ui.analyses[k].employee_id),
                  ui.analyses[k])]

\* analyses.slice(0, 5).map(...) of the home page
HomePage_rows ==
    [k \in 1..(IF Len(ui.analyses) < 5 THEN Len(ui.analyses) ELSE 5) |->
        ReportRow(HomePage_getEmployeeName(ui.employees,
                                           ui.analyses[k].employee_id),
                  ui.analyses[k])]

\* the rows of the table the mounted page shows
PageRows ==
    IF ~ShowsTable THEN <<>>
    ELSE CASE route = "reports" -> ReportsPage_rows
           [] route = "home" -> HomePage_rows
           [] OTHER -> <<>>

\* ------------------------------------------------------------------------
\* Initial states
\* ------------------------------------------------------------------------
NoParam == [isString |-> FALSE, value |-> <<>>]
StringParam(s) == [isString |-> TRUE, value |-> s]
RouteParams ==
    {NoParam} \cup {StringParam(s) :
                       s \in {<<"x">>, <<"0">>, <<"-", "1">>, <<"1">>,
                              <<"1", "x">>}}

PageEnvValues ==
    {EnvUnset, EnvOf(<<>>), EnvOf(<<" ">>), EnvOf(<<"h">>),
     EnvOf(<<"h", "/">>)}

NameInputs == {<<>>, <<" ">>, <<" ", "A">>}
SurnameInputs == {<<>>, <<"B">>}

NoPage ==
    /\ route = "home"
    /\ param = NoParam
    /\ ui = InitialUi
    /\ calls = <<>>
    /\ mountState = "idle"
    /\ escaped = FALSE

NoHarness ==
    /\ raw = NoRaw
    /\ mapped = NotMapped
    /\ remapped = NotMapped
    /\ params = NoParams
    /\ path = <<>>
    /\ url = NoUrl

\* a page has been constructed, its effect has not run yet
Init ==
    /\ env \in PageEnvValues
    /\ route \in Routes
    /\ param \in IF route = "reportDetail" THEN RouteParams ELSE {NoParam}
    /\ ui = InitialUi
    /\ calls = <<>>
    /\ mountState = "idle"
    /\ escaped = FALSE
    /\ NoHarness

\* ------------------------------------------------------------------------
\* The mount effect
\* ------------------------------------------------------------------------
\* a plausible slip: no request at all without a configured backend
MountCalls_gated ==
    IF ~hasBackendUrl(env) THEN <<>>
    ELSE CASE route \in {"home", "reports"} ->
                  <<analysisApi_getAll(env, "mount"),
                    employeeApi_getAll(env, "mount")>>
           [] route = "reportDetail" ->
                  <<analysisApi_getById(env, RouteId(param).v, "mount"),
                    employeeApi_getAll(env, "mount")>>
           [] OTHER -> <<employeeApi_getAll(env, "mount")>>

\* the calls the mount effect of the page makes
MountCalls ==
    CASE route \in {"home", "reports"} ->
             <<analysisApi_getAll(env, "mount"),
               employeeApi_getAll(env, "mount")>>
      [] route = "reportDetail" ->
             <<analysisApi_getById(env, RouteId(param).v, "mount"),
               employeeApi_getAll(env, "mount")>>
      [] OTHER -> <<employeeApi_getAll(env, "mount")>>

\* useEffect(() => { ... fetchData() }, [])
Mount ==
    /\ mountState = "idle"
    /\ IF route = "reportDetail" /\ InvalidId(RouteId(param))
       THEN /\ ui' = [ui EXCEPT !.notFound = TRUE, !.loading = FALSE]
            /\ mountState' = "done"
            /\ calls' = calls
       ELSE /\ calls' = calls \o MountCalls
            /\ mountState' = "pending"
            /\ ui' = ui
    /\ UNCHANGED <<env, route, param, escaped, harness>>

\* ------------------------------------------------------------------------
\* A call moves on; when it settles, the handler awaiting it runs on
\* ------------------------------------------------------------------------
Deliver(i, c2) ==
    LET cs == [calls EXCEPT ![i] = c2]
    IN  IF c2.phase # "settled" \/ calls[i].phase = "settled"
        THEN /\ calls' = cs
             /\ UNCHANGED <<ui, mountState, escaped>>
        ELSE IF c2.task = "submit"
        THEN LET h == IF route = "employees"
                      THEN EmployeesPage_afterCreate(ui, c2)
                      ELSE AnalysisPage_afterCreate(ui, c2)
             IN  /\ ui' = h.ui
                 /\ calls' = IF h.refetch
                             THEN cs \o <<employeeApi_getAll(env, "refetch")>>
                             ELSE cs
                 /\ escaped' = (escaped \/ h.rejected)
                 /\ UNCHANGED mountState
        ELSE IF route \in JoinRoutes
        THEN IF /\ mountState = "pending"
                /\ \/ c2.outcome = "rejected"
                   \/ \A k \in 1..2 : cs[k].outcome = "resolved"
             THEN LET h == CASE route = "reportDetail" ->
                                    ReportDetailPage_fetchData(ui, cs[1], cs[2])
                             [] route = "reports" ->
                                    ReportsPage_fetchData(ui, cs[1], cs[2])
                             [] OTHER ->
                                    HomePage_fetchData(ui, cs[1], cs[2])
                  IN  /\ ui' = h.ui
                      /\ calls' = cs
                      /\ mountState' = "done"
                      /\ escaped' = (escaped \/ h.rejected)
             ELSE /\ calls' = cs
                  /\ UNCHANGED <<ui, mountState, escaped>>
        ELSE LET h == IF route = "employees"
                      THEN EmployeesPage_fetchData(ui, c2)
                      ELSE AnalysisPage_fetchData(ui, c2)
             IN  /\ ui' = h.ui
                 /\ calls' = cs
                 /\ mountState' = IF c2.task = "mount" THEN "done"
                                  ELSE mountState
                 /\ escaped' = (escaped \/ h.rejected)

\* the backend answers with a status line and headers
ResponseArrives(i, ok) ==
    /\ i \in 1..Len(calls)
    /\ calls[i].phase = "fetch"
    /\ Deliver(i, AfterFetch(calls[i], IF ok THEN "ok" ELSE "notok"))
    /\ UNCHANGED <<env, route, param, harness>>

\* DNS or connection error: fetch rejects
NetworkError(i) ==
    /\ i \in 1..Len(calls)
    /\ calls[i].phase = "fetch"
    /\ Deliver(i, AfterFetch(calls[i], "network"))
    /\ UNCHANGED <<env, route, param, harness>>

\* API_TIMEOUT_MS have passed: the timer's callback calls controller.abort()
TimerFires(i) ==
    /\ i \in 1..Len(calls)
    /\ calls[i].timer = "armed"
    /\ Deliver(i, AfterAbort(calls[i]))
    /\ UNCHANGED <<env, route, param, harness>>

\* res.json() settles: the body has been read and parsed, or is malformed
BodyArrives(i, body) ==
    /\ i \in 1..Len(calls)
    /\ calls[i].phase = "json"
    /\ body \in BodiesOf(calls[i].api)
    /\ Deliver(i, AfterJson(calls[i], body))
    /\ UNCHANGED <<env, route, param, harness>>

\* ------------------------------------------------------------------------
\* The user
\* ------------------------------------------------------------------------
EditName(v) ==
    /\ route = "employees"
    /\ ShowsForm
    /\ v # ui.name
    /\ ui' = [ui EXCEPT !.name = v]
    /\ UNCHANGED <<env, route, param, calls, mountState, escaped, harness>>

EditSurname(v) ==
    /\ route = "employees"
    /\ ShowsForm
    /\ v # ui.surname
    /\ ui' = [ui EXCEPT !.surname = v]
    /\ UNCHANGED <<env, route, param, calls, mountState, escaped, harness>>

\* the options of the select: "Secin" (Number("") is 0) and the employees
EmployeeOptions == {0} \cup {ui.employees[k].id.v : k \in 1..Len(ui.employees)}

SelectEmployee(v) ==
    /\ route = "analysis"
    /\ ShowsForm
    /\ v \in EmployeeOptions
    /\ v # ui.form.employee_id
    /\ ui' = [ui EXCEPT !.form.employee_id = v]
    /\ UNCHANGED <<env, route, param, calls, mountState, escaped, harness>>

ChooseFile(f) ==
    /\ route = "analysis"
    /\ ShowsForm
    /\ f # ui.form.attendance_file
    /\ ui' = [ui EXCEPT !.form.attendance_file = f]
    /\ UNCHANGED <<env, route, param, calls, mountState, escaped, harness>>

\* the submit button is pressed (it is disabled while submitting)
Submit ==
    /\ ShowsForm
    /\ ~ui.submitting
    /\ Len(calls) + 2 <= MaxCalls
    /\ LET s == IF route = "employees" THEN EmployeesPage_handleSubmit(ui)
                ELSE AnalysisPage_handleSubmit(ui)
           c == IF route = "employees"
                THEN employeeApi_create(env, Trim(ui.name), Trim(ui.surname))
                ELSE analysisApi_create(env, AnalysisPage_createParams(ui.form))
       IN  /\ ui' = s.ui
           /\ calls' = IF s.send THEN calls \o <<c>> ELSE calls
    /\ UNCHANGED <<env, route, param, mountState, escaped, harness>>

Next ==
    \/ Mount
    \/ \E i \in 1..MaxCalls, ok \in BOOLEAN : ResponseArrives(i, ok)
    \/ \E i \in 1..MaxCalls : NetworkError(i)
    \/ \E i \in 1..MaxCalls : TimerFires(i)
    \/ \E i \in 1..MaxCalls, body \in AllBodies : BodyArrives(i, body)
    \/ \E v \in NameInputs : EditName(v)
    \/ \E v \in SurnameInputs : EditSurname(v)
    \/ \E v \in 0..3 : SelectEmployee(v)
    \/ \E f \in {"null", "file"} : ChooseFile(f)
    \/ Submit

Spec == Init /\ [][Next]_vars

\* The browser runs the effect of a mounted page and every armed timer's
\* callback; nothing obliges the backend to answer or the user to act.
FairSpec ==
    /\ Spec
    /\ WF_vars(Mount)
    /\ \A i \in 1..MaxCalls : WF_vars(TimerFires(i))

\* ------------------------------------------------------------------------
\* Specification of the adapter: every raw analysis, mapped once
\* ------------------------------------------------------------------------
InitMap ==
    /\ env = EnvUnset
    /\ NoPage
    /\ path = <<>>
    /\ url = NoUrl
    /\ \E th \in HourValues, ac \in HourValues :
           raw = RawAnalysis(5, 1, 2024, th, ac)
    /\ mapped = NotMapped
    /\ remapped = NotMapped
    /\ params = NoParams

Map ==
    /\ ~mapped.done
    /\ mapped' = [done |-> TRUE, value |-> mapAnalysis(raw)]
    /\ UNCHANGED <<env, raw, remapped, params, path, url, route, param, ui,
                   calls, mountState, escaped>>

\* mapAnalysis applied to what it returned
MapAgain ==
    /\ mapped.done
    /\ ~remapped.done
    /\ remapped' = [done |-> TRUE, value |-> mapAnalysis(mapped.value)]
    /\ UNCHANGED <<env, raw, mapped, params, path, url, route, param, ui,
                   calls, mountState, escaped>>

NextMap == Map \/ MapAgain

SpecMap == InitMap /\ [][NextMap]_vars

\* ------------------------------------------------------------------------
\* Specification of the URL construction: every base and path, built once
\* ------------------------------------------------------------------------
InitUrl ==
    /\ env \in EnvValues
    /\ NoPage
    /\ path \in Paths
    /\ url = NoUrl
    /\ raw = NoRaw
    /\ mapped = NotMapped
    /\ remapped = NotMapped
    /\ params = NoParams

BuildApiUrl ==
    /\ ~url.done
    /\ url' = [done |-> TRUE, mode |-> "json", value |-> apiUrl(env, path)]
    /\ UNCHANGED <<env, raw, mapped, remapped, params, path, route, param,
                   ui, calls, mountState, escaped>>

BuildApiFormUrl ==
    /\ ~url.done
    /\ url' = [done |-> TRUE, mode |-> "form", value |-> apiFormUrl(env, path)]
    /\ UNCHANGED <<env, raw, mapped, remapped, params, path, route, param,
                   ui, calls, mountState, escaped>>

NextUrl == BuildApiUrl \/ BuildApiFormUrl

SpecUrl == InitUrl /\ [][NextUrl]_vars

\* ------------------------------------------------------------------------
\* Specification of analysisApi.create: every argument, one call
\* ------------------------------------------------------------------------
LeaveValues == {Undef, Num(0), Num(14)}
NotGiven == [given |-> FALSE, value |-> <<>>]
Given(v) == [given |-> TRUE, value |-> v]
HolidayValues == {NotGiven, Given(EmptyJsonArray), Given(<<"[", "1", "]">>)}
FileValues == {[given |-> FALSE, value |-> "null"], Given("null"),
               Given("file")}

\* the argument of analysisApi.create; an optional field that is Undef or
\* NotGiven is left out
CreateParams(employee_id, total, used, extra, holidays, file) ==
    LET required == [employee_id |-> Num(employee_id),
                     year |-> Num(CurrentYear),
                     daily_working_hours |-> Num(9),
                     weekly_working_days |-> Num(5)]
        opt(f, k, v) == IF v.t = "undefined" THEN f ELSE f @@ (k :> v)
        p1 == opt(required, "annual_leave_total", total)
        p2 == opt(p1, "annual_leave_used", used)
        p3 == opt(p2, "extra_leave_days", extra)
        p4 == IF holidays.given THEN p3 @@ ("holidays_data" :> holidays.value)
              ELSE p3
    IN  IF file.given THEN p4 @@ ("attendance_file" :> file.value) ELSE p4

InitCreate ==
    /\ env \in {EnvUnset, EnvOf(<<"h">>)}
    /\ NoPage
    /\ raw = NoRaw
    /\ mapped = NotMapped
    /\ remapped = NotMapped
    /\ path = <<>>
    /\ url = NoUrl
    /\ \E employee_id \in 1..2, total \in LeaveValues, used \in LeaveValues,
          extra \in LeaveValues, holidays \in HolidayValues,
          file \in FileValues :
           params = CreateParams(employee_id, total, used, extra, holidays,
                                 file)

\* analysisApi.create(params), up to its fetch
CreateAnalysis ==
    /\ calls = <<>>
    /\ calls' = <<analysisApi_create(env, params)>>
    /\ UNCHANGED <<env, raw, mapped, remapped, params, path, url, route,
                   param, ui, mountState, escaped>>

NextCreate == CreateAnalysis

SpecCreate == InitCreate /\ [][NextCreate]_vars

\* ------------------------------------------------------------------------
\* C1: for theoretical_working_hours > 0 the mapped efficiency_percentage
\* is exactly actual / theoretical * 100 (a missing or null actual counting
\* as 0): not rounded, not clamped; 160 and 144 give exactly 90, and an
\* actual above the theoretical gives more than 100.
\* ------------------------------------------------------------------------
RawTheoretical == NullishOr(Get(raw, "theoretical_working_hours"), 0)
RawActual == NullishOr(Get(raw, "actual_working_hours"), 0)

C1_EfficiencyExact ==
    (mapped.done /\ Get(raw, "theoretical_working_hours").t = "num"
                 /\ RawTheoretical > 0) =>
        LET e == mapped.value.efficiency_percentage
        IN  /\ e.den > 0
            /\ e.num * RawTheoretical = RawActual * 100 * e.den
            /\ (RawTheoretical = 160 /\ RawActual = 144) => e = [num |-> 90, den |-> 1]
            /\ (RawActual > RawTheoretical) => e.num > 100 * e.den

C1_Witness ==
    /\ mapped.done
    /\ RawTheoretical = 1
    /\ RawActual = 3
    /\ mapped.value.efficiency_percentage = [num |-> 300, den |-> 1]

\* ------------------------------------------------------------------------
\* C2: mapAnalysis is defined on every raw analysis, and when
\* theoretical_working_hours is missing, null or 0 the mapped
\* efficiency_percentage is 0 whatever actual_working_hours is; a missing
\* or null hour field is mapped to 0 hours.
\* ------------------------------------------------------------------------
IsNullish(x) == x.t \in {"undefined", "null"}

C2_DivisionGuard ==
    mapped.done =>
        LET th == Get(raw, "theoretical_working_hours")
            ac == Get(raw, "actual_working_hours")
            o == mapped.value
        IN  /\ (IsNullish(th) \/ th = Num(0)) =>
                   o.efficiency_percentage = [num |-> 0, den |-> 1]
            /\ IsNullish(th) => o.theoretical_hours = Num(0)
            /\ IsNullish(ac) => o.actual_hours = Num(0)
            /\ o.efficiency_percentage.den > 0

C2_Witness ==
    /\ mapped.done
    /\ Get(raw, "theoretical_working_hours") = Num(0)
    /\ Get(raw, "actual_working_hours") = Num(50)
    /\ mapped.value.efficiency_percentage = [num |-> 0, den |-> 1]

\* ------------------------------------------------------------------------
\* C3: the URL built from a base and a path beginning with "/".
\* ------------------------------------------------------------------------
EndsWithSlash(s) == Len(s) > 0 /\ s[Len(s)] = "/"
EndsWithTwoSlashes(s) == Len(s) > 1 /\ s[Len(s)] = "/" /\ s[Len(s) - 1] = "/"
IsSuffix(s, t) ==
    Len(s) <= Len(t) /\ SubSeq(t, Len(t) - Len(s) + 1, Len(t)) = s
\* what precedes the path in the built URL
UrlPrefix == SubSeq(url.value, 1, Len(url.value) - Len(path))

\* C3 as stated: whatever the base, the path follows a prefix that does not
\* end in a slash (exactly one slash at the join, never doubled or missing),
\* and an empty base yields the path unchanged.
C3_OneSlashAtJoin ==
    url.done =>
        /\ IsSuffix(path, url.value)
        /\ ~EndsWithSlash(UrlPrefix)
        /\ getBaseUrl(env) = <<>> => url.value = path

\* C3 as amended: exactly one trailing slash of the base is stripped before
\* the path is appended, so the join has exactly one slash whenever the base
\* does not end in two slashes; the documented example gives the documented
\* URL; an empty base yields the path unchanged.
C3_SingleSlashStripped ==
    url.done =>
        LET base == getBaseUrl(env)
        IN  /\ IsSuffix(path, url.value)
            /\ base = <<>> => url.value = path
            /\ base # <<>> =>
                   UrlPrefix \o (IF EndsWithSlash(base) THEN <<"/">> ELSE <<>>)
                       = base
            /\ ~EndsWithTwoSlashes(base) => ~EndsWithSlash(UrlPrefix)
            /\ (base = ExampleBase /\ path = ExamplePath) =>
                   url.value = ExampleUrl

C3_Witness ==
    /\ url.done
    /\ getBaseUrl(env) = ExampleBase
    /\ path = ExamplePath
    /\ url.value = ExampleUrl

\* ------------------------------------------------------------------------
\* C4: every call made through the client wrapper eventually settles,
\* whatever the backend does: no call stays pending forever, also not while
\* the response body is being read.
\* ------------------------------------------------------------------------
Issued(i) == i <= Len(calls)
Settled(i) == i <= Len(calls) /\ calls[i].phase = "settled"

C4_EveryCallSettles == \A i \in 1..MaxCalls : Issued(i) ~> Settled(i)

\* ------------------------------------------------------------------------
\* Steps and states the claims about failures speak of
\* ------------------------------------------------------------------------
CallIdx == 1..Len(calls)

\* call i settles in this step
SettlesNow(i) == calls[i].phase # "settled" /\ calls'[i].phase = "settled"

ReadApis == {"employeeApi.getAll", "analysisApi.getAll", "analysisApi.getById"}
CreateApis == {"employeeApi.create", "analysisApi.create"}

Blank(e) == Trim(getBaseUrl(e)) = <<>>

\* ------------------------------------------------------------------------
\* C5 as stated: a list call whose request failed at the network level or
\* was aborted by the timeout has resolved to an empty collection, a create
\* call to null.
\* ------------------------------------------------------------------------
C5_FailureResolvesToSentinel ==
    \A i \in CallIdx :
        (calls[i].fetch \in {"network", "abort"}
             /\ calls[i].api \in ListApis \cup CreateApis) =>
            /\ calls[i].outcome = "resolved"
            /\ calls[i].value = IF calls[i].api \in ListApis
                                THEN ListVal(<<>>) ELSE NullVal

\* C5 as amended: when the request fails at the network level or is aborted
\* by the timeout, the wrapper call rejects, and it is the page that catches
\* the rejection: it ends with empty lists after a read and with the
\* "request failed" message after a create.  What the calls resolve to on a
\* non-2xx status is the empty collection (list calls) and null (the others).
C5_FailureRejectsPageCatches ==
    [][\A i \in CallIdx :
           /\ (SettlesNow(i) /\ calls'[i].fetch \in {"network", "abort"}) =>
                  /\ calls'[i].outcome = "rejected"
                  /\ calls'[i].api \in CreateApis =>
                         /\ ui'.message = Err(MsgRequestFailed)
                         /\ ~ui'.submitting
                  /\ calls'[i].api \in ReadApis =>
                         /\ ui'.employees = <<>>
                         /\ ui'.analyses = <<>>
                         /\ ui'.analysis = NullVal
                         /\ ~ui'.loading
           /\ (SettlesNow(i) /\ calls'[i].fetch = "notok") =>
                  /\ calls'[i].outcome = "resolved"
                  /\ calls'[i].value = IF calls'[i].api \in ListApis
                                       THEN ListVal(<<>>) ELSE NullVal
      ]_vars

C5_Witness ==
    \E i \in CallIdx :
        /\ calls[i].api = "employeeApi.create"
        /\ calls[i].fetch = "abort"
        /\ calls[i].outcome = "rejected"
        /\ ui.message = Err(MsgRequestFailed)

\* ------------------------------------------------------------------------
\* C6 as stated: what a page shows after a non-2xx response is what it
\* shows after a network failure: empty lists on a read path, the generic
\* "request failed" message on a create path.
\* ------------------------------------------------------------------------
C6_NotOkLikeNetworkFailure ==
    [][\A i \in CallIdx :
           (SettlesNow(i) /\ calls'[i].fetch = "notok") =>
               /\ calls'[i].api \in CreateApis =>
                      ui'.message = Err(MsgRequestFailed)
               /\ (calls'[i].api \in ReadApis /\ mountState' = "done") =>
                      /\ ui'.employees = <<>>
                      /\ ui'.analyses = <<>>
      ]_vars

\* C6 as amended: after a non-2xx response the page holds the empty value
\* for that request (the empty list, no analysis) as soon as the mount's
\* fetch is done, which on the pages with one read request is what a
\* network failure gives; on a create path the page ends with an error
\* message, not submitting, whose text is the page's "could not reach the
\* backend" text and not the "request failed" text of a network failure.
C6_NotOkEmptyOrBackendMessage ==
    [][\A i \in CallIdx :
           (calls'[i].fetch = "notok" /\ calls'[i].phase = "settled") =>
               /\ (SettlesNow(i) /\ calls'[i].api \in CreateApis) =>
                      /\ ui'.message =
                             Err(IF route = "employees" THEN MsgEmployeeBackend
                                 ELSE MsgAnalysisBackend)
                      /\ ui'.message # Err(MsgRequestFailed)
                      /\ ~ui'.submitting
               /\ (SettlesNow(i) /\ calls'[i].api \in ReadApis
                       /\ route \in FormRoutes) =>
                      /\ ui'.employees = <<>>
                      /\ ~ui'.loading
               /\ (calls'[i].api \in ReadApis /\ route \in JoinRoutes
                       /\ mountState' = "done") =>
                      /\ ~ui'.loading
                      /\ calls'[i].api = "employeeApi.getAll" =>
                             ui'.employees = <<>>
                      /\ calls'[i].api = "analysisApi.getAll" =>
                             ui'.analyses = <<>>
                      /\ calls'[i].api = "analysisApi.getById" =>
                             ui'.analysis = NullVal /\ ui'.notFound
      ]_vars

C6_Witness ==
    \E i \in CallIdx :
        /\ calls[i].api = "analysisApi.create"
        /\ calls[i].fetch = "notok"
        /\ calls[i].phase = "settled"
        /\ ui.message = Err(MsgAnalysisBackend)
        /\ ~ui.submitting

\* ------------------------------------------------------------------------
\* C7: the pages with two read requests.
\* ------------------------------------------------------------------------
\* the request of call k came to nothing
Failed(k) ==
    \/ calls[k].fetch \in {"notok", "network", "abort"}
    \/ calls[k].outcome = "rejected"

\* C7 as stated: once the mount's fetch is done, if either request failed
\* both lists are empty.
C7_AllOrNothing ==
    (route \in JoinRoutes /\ mountState = "done" /\ Len(calls) = 2
         /\ (Failed(1) \/ Failed(2))) =>
        /\ ui.employees = <<>>
        /\ ui.analyses = <<>>
        /\ ui.analysis = NullVal

\* C7 as amended: the two requests are issued together and the page stays
\* loading until both have resolved or one has rejected; if either call
\* rejects (network failure, timeout abort, unreadable body) both lists
\* are empty; a request answered with a non-2xx status empties its own
\* list only, and the other request's data is displayed.
C7_RejectionEmptiesBoth ==
    route \in JoinRoutes =>
        /\ mountState = "pending" => (Len(calls) = 2 /\ ui.loading)
        /\ ~(mountState = "pending"
                 /\ \A k \in 1..2 : calls[k].phase = "settled")
        /\ (Len(calls) = 2 /\ \E k \in 1..2 : calls[k].outcome = "rejected") =>
               /\ mountState = "done"
               /\ ~ui.loading
               /\ ui.employees = <<>>
               /\ ui.analyses = <<>>
               /\ ui.analysis = NullVal
        /\ (Len(calls) = 2 /\ mountState = "done"
                /\ \A k \in 1..2 : calls[k].outcome = "resolved") =>
               /\ ui.employees = calls[2].value.items
               /\ route # "reportDetail" => ui.analyses = calls[1].value.items
               /\ route = "reportDetail" => ui.analysis = calls[1].value

C7_Witness ==
    /\ route = "reports"
    /\ mountState = "done"
    /\ Len(calls) = 2
    /\ calls[1].outcome = "rejected"
    /\ calls[2].outcome = "resolved"
    /\ calls[2].value.items # <<>>
    /\ ui.employees = <<>>
    /\ ui.analyses = <<>>

\* ------------------------------------------------------------------------
\* C8: while the base address is unset or empty (or blank) neither form is
\* shown, the loaded form pages show the "backend not configured" warning,
\* and no create request (a POST) has been issued.
\* ------------------------------------------------------------------------
C8_NoCreateWithoutBackend ==
    Blank(env) =>
        /\ ~ShowsForm
        /\ (route \in FormRoutes /\ ~ShowsSpinner) => ShowsBackendWarning
        /\ \A i \in CallIdx :
               calls[i].method # "POST" /\ calls[i].api \notin CreateApis

C8_Witness ==
    /\ env = EnvUnset
    /\ route = "employees"
    /\ mountState = "done"
    /\ ShowsBackendWarning
    /\ ~ShowsForm
    /\ calls # <<>>

\* ------------------------------------------------------------------------
\* C9 as stated: when the base URL setting is absent or blank no HTTP
\* request at all is attempted.
\* ------------------------------------------------------------------------
C9_NoRequestWithoutBackend == Blank(env) => calls = <<>>

\* C9 as amended: when the base URL setting is absent or blank the form
\* pages show the configuration warning once loaded and no create request
\* is attempted, but the read requests of the mount are attempted all the
\* same, against the path appended to the (empty or blank) setting.
C9_ReadsStillAttempted ==
    Blank(env) =>
        /\ (route \in FormRoutes /\ ~ui.loading) => ShowsBackendWarning
        /\ (mountState # "idle"
                /\ ~(route = "reportDetail" /\ InvalidId(RouteId(param)))) =>
               calls # <<>>
        /\ \A i \in CallIdx :
               /\ calls[i].task = "mount"
               /\ calls[i].method = "GET"
               /\ calls[i].url \in
                      {getBaseUrl(env) \o p :
                           p \in {PathEmployees, PathAnalyses,
                                  PathAnalysis(1), PathAnalysis(-1)}}

C9_Witness ==
    /\ env = EnvUnset
    /\ route = "analysis"
    /\ calls # <<>>
    /\ calls[1].url = PathEmployees
    /\ calls[1].phase = "settled"
    /\ ShowsBackendWarning

\* ------------------------------------------------------------------------
\* C10: no failure escapes a page.  No handler's promise is ever rejected
\* unhandled; when a read request fails (network failure, timeout abort,
\* non-2xx status, unreadable body) the page, once its fetch is done, holds
\* the empty value for it and is no longer loading; when a create request
\* fails the page ends with an error message and is no longer submitting.
\* ------------------------------------------------------------------------
FailedAfter(i) ==
    \/ calls'[i].fetch \in {"notok", "network", "abort"}
    \/ calls'[i].outcome = "rejected"
    \/ calls'[i].api \in CreateApis /\ ~Truthy(calls'[i].value)

C10_NoFailureEscapes ==
    [][/\ ~escaped'
       /\ \A i \in CallIdx :
              (SettlesNow(i) /\ FailedAfter(i)) =>
                  /\ calls'[i].api \in CreateApis =>
                         /\ ui'.message.type = "err"
                         /\ ~ui'.submitting
                  /\ (calls'[i].api \in ReadApis /\ route \in FormRoutes) =>
                         /\ ~ui'.loading
                         /\ ui'.employees = <<>>
                  /\ (calls'[i].api \in ReadApis /\ route \in JoinRoutes
                          /\ mountState' = "done") =>
                         /\ ~ui'.loading
                         /\ calls'[i].api = "employeeApi.getAll" =>
                                ui'.employees = <<>>
                         /\ calls'[i].api = "analysisApi.getAll" =>
                                ui'.analyses = <<>>
                         /\ calls'[i].api = "analysisApi.getById" =>
                                ui'.analysis = NullVal /\ ui'.notFound
      ]_vars

C10_Witness ==
    /\ route = "employees"
    /\ ~escaped
    /\ ui.employees = <<>>
    /\ ~ui.loading
    /\ \E i \in CallIdx :
           /\ calls[i].task = "refetch"
           /\ calls[i].fetch = "ok"
           /\ calls[i].outcome = "rejected"

\* ------------------------------------------------------------------------
\* C15: mapAnalysis is idempotent: applied to its own output it gives the
\* same theoretical_hours, actual_hours and efficiency_percentage as applied
\* once.
\* ------------------------------------------------------------------------
C15_Idempotent ==
    remapped.done =>
        /\ remapped.value.theoretical_hours = mapped.value.theoretical_hours
        /\ remapped.value.actual_hours = mapped.value.actual_hours
        /\ remapped.value.efficiency_percentage =
               mapped.value.efficiency_percentage

\* ------------------------------------------------------------------------
\* C11: the loading indicator and what replaces it.
\* ------------------------------------------------------------------------
\* the effect of the detail page returns before fetching
MountSkipped == route = "reportDetail" /\ InvalidId(RouteId(param))

\* the fetch of the mount effect has settled: its call, or the Promise.all
\* of its two calls
MountFetchSettled ==
    IF route \in JoinRoutes
    THEN /\ Len(calls) >= 2
         /\ \/ \E k \in 1..2 : calls[k].outcome = "rejected"
            \/ \A k \in 1..2 : calls[k].outcome = "resolved"
    ELSE Len(calls) >= 1 /\ calls[1].phase = "settled"

\* the list whose emptiness the page looks at
PageList == IF route \in {"home", "reports"} THEN ui.analyses ELSE ui.employees

C11_Views ==
    /\ ShowsSpinner <=> mountState # "done"
    /\ mountState = "pending" => ~MountFetchSettled
    /\ (mountState = "done" /\ ~MountSkipped) => MountFetchSettled
    /\ (route \in {"home", "reports", "employees"} /\ ~ui.loading) =>
           /\ ShowsEmptyState <=> PageList = <<>>
           /\ ShowsTable <=> PageList # <<>>
    /\ (route = "analysis" /\ ~ui.loading) =>
           IF hasBackendUrl(env)
           THEN /\ ShowsEmptyState <=> ui.employees = <<>>
                /\ ShowsForm <=> ui.employees # <<>>
           ELSE ~ShowsEmptyState /\ ~ShowsForm /\ ShowsBackendWarning
    /\ (route = "reportDetail" /\ ~ui.loading) =>
           (ShowsNotFound <=> ~ShowsDetail)

CreatePending ==
    \E i \in CallIdx : calls[i].task = "submit" /\ calls[i].phase # "settled"

\* this step sends a create request
SendsCreate ==
    /\ Len(calls') = Len(calls) + 1
    /\ calls'[Len(calls')].task = "submit"

\* C12: the submit control is disabled exactly while a create request is
\* outstanding.  The step that sends the request starts from an enabled
\* control, disables it and clears the message; the step in which the
\* request settles, resolved or rejected, enables the control again and
\* leaves exactly one message: the success message if the call resolved to
\* the created object, an error message otherwise.
C12_SubmitProtocol ==
    [][/\ ui.submitting <=> CreatePending
       /\ ui'.submitting <=> CreatePending'
       /\ SendsCreate =>
              /\ ~ui.submitting
              /\ ui'.submitting
              /\ ui'.message = NoMessage
              /\ calls'[Len(calls')].api \in CreateApis
              /\ calls'[Len(calls')].phase = "fetch"
       /\ \A i \in CallIdx :
              (SettlesNow(i) /\ calls[i].task = "submit") =>
                  /\ ui.submitting
                  /\ ~ui'.submitting
                  /\ ui'.message.type \in {"ok", "err"}
                  /\ ui'.message.type = "ok" <=>
                         (calls'[i].outcome = "resolved"
                              /\ Truthy(calls'[i].value))
      ]_vars

C12_Witness ==
    /\ route = "employees"
    /\ ~ui.submitting
    /\ ui.message = Ok(MsgEmployeeAdded)
    /\ \E i \in CallIdx :
           /\ calls[i].api = "employeeApi.create"
           /\ calls[i].outcome = "resolved"
           /\ Truthy(calls[i].value)

\* ------------------------------------------------------------------------
\* C13: client-side validation.
\* ------------------------------------------------------------------------
\* a required field is missing: no employee selected (analysis form), a
\* name or surname that is blank after trimming (employee form)
InvalidFields ==
    IF route = "employees"
    THEN Trim(ui.name) = <<>> \/ Trim(ui.surname) = <<>>
    ELSE ui.form.employee_id = 0

ValidationMessage ==
    Err(IF route = "employees" THEN MsgNameRequired ELSE MsgSelectEmployee)

\* C13: while a required field is missing no step sends a create request;
\* a submit in such a state (the one step that changes the message without
\* a call settling) sets the page's validation error message and changes
\* nothing else: not the submitting flag, not the form fields, not the
\* calls.
C13_ValidationBlocksSubmit ==
    [][(route \in FormRoutes /\ InvalidFields) =>
           /\ ~SendsCreate
           /\ \A i \in 1..Len(calls') : i > Len(calls) =>
                  calls'[i].api \notin CreateApis
           /\ (ui'.message # ui.message
                   /\ ~\E i \in CallIdx : SettlesNow(i)) =>
                  /\ ui' = [ui EXCEPT !.message = ValidationMessage]
                  /\ calls' = calls
      ]_vars

C13_Witness ==
    /\ route = "employees"
    /\ ShowsForm
    /\ ui.name = <<" ">>
    /\ ui.surname = <<"B">>
    /\ ui.message = Err(MsgNameRequired)
    /\ ~ui.submitting
    /\ \A i \in CallIdx : calls[i].api \notin CreateApis

\* ------------------------------------------------------------------------
\* C14: when both list requests of the reports page have succeeded, there
\* is one row per fetched analysis, and it shows the name and surname of the
\* first fetched employee whose id is the analysis' employee_id (the
\* placeholder if there is none), the year and the efficiency to one
\* decimal; employee 1 "Ada Lovelace" and the analysis of employee 1 for
\* 2024 with 2000 and 1800 hours give "Ada Lovelace", 2024 and "90.0%".
\* ------------------------------------------------------------------------
BothListsFetched ==
    /\ route = "reports"
    /\ mountState = "done"
    /\ Len(calls) = 2
    /\ \A k \in 1..2 : calls[k].fetch = "ok" /\ calls[k].outcome = "resolved"

NinetyPercent == <<"9", "0", ".", "0", "%">>

C16_TimerClearedOnSettle ==
    [][/\ \A i \in 1..Len(calls') :
              /\ calls'[i].timer = "armed" <=> calls'[i].fetch = "pending"
              /\ calls'[i].timer = "fired" <=> calls'[i].fetch = "abort"
              /\ calls'[i].fetch \in {"ok", "notok", "network"} =>
                     calls'[i].timer = "cleared"
       /\ \A i \in CallIdx :
              /\ (calls[i].timer # "fired" /\ calls'[i].timer = "fired") =>
                     /\ calls[i].fetch = "pending"
                     /\ calls[i].phase = "fetch"
              /\ calls[i].fetch # "pending" =>
                     /\ calls'[i].timer = calls[i].timer
                     /\ calls'[i].fetch = calls[i].fetch
       /\ (\A i \in 1..Len(calls') : calls'[i].fetch # "pending") =>
              \A i \in 1..Len(calls') : calls'[i].timer # "armed"
      ]_vars

C16_Witness ==
    \E i, j \in CallIdx :
        /\ calls[i].fetch = "network"
        /\ calls[i].phase = "settled"
        /\ calls[i].timer = "cleared"
        /\ calls[j].fetch = "ok"
        /\ calls[j].timer = "cleared"
        /\ \A k \in CallIdx : calls[k].timer # "armed"

\* ------------------------------------------------------------------------
\* C17: every request sent through api() (the three read calls, none of
\* which passes headers of its own) carries the JSON content-type header;
\* every request sent through apiForm() (the two create calls, with their
\* FormData body) carries no content-type header set by the wrapper.
\* ------------------------------------------------------------------------
C17_ContentTypeByMode ==
    \A i \in CallIdx :
        /\ calls[i].api \in ReadApis \cup CreateApis
        /\ calls[i].api \in ReadApis =>
               /\ calls[i].contentType = JsonContentType
               /\ calls[i].method = "GET"
               /\ calls[i].body = <<>>
        /\ calls[i].api \in CreateApis =>
               /\ calls[i].contentType = NoContentType
               /\ calls[i].contentType # JsonContentType
               /\ calls[i].method = "POST"
               /\ calls[i].body # <<>>

C17_Witness ==
    \E i, j \in CallIdx :
        /\ calls[i].api = "employeeApi.getAll"
        /\ calls[i].contentType = JsonContentType
        /\ calls[j].api = "analysisApi.create"
        /\ calls[j].contentType = NoContentType

\* ------------------------------------------------------------------------
\* C18: analysisApi.create sends a POST to /api/analyses whose body holds,
\* in this order, employee_id, year, daily_working_hours,
\* weekly_working_days, annual_leave_total, annual_leave_used,
\* extra_leave_days and holidays_data; a leave field that was not given is
\* sent as "0", holidays_data that was not given as "[]", each given field
\* as given; attendance_file follows if and only if a file was supplied.
\* ------------------------------------------------------------------------
RequiredNames ==
    <<"employee_id", "year", "daily_working_hours", "weekly_working_days",
      "annual_leave_total", "annual_leave_used", "extra_leave_days",
      "holidays_data">>

\* what the body must hold for an optional number
LeaveText(k) ==
    IF k \in DOMAIN params THEN NumToString(params[k].v) ELSE <<"0">>

FileSupplied ==
    "attendance_file" \in DOMAIN params /\ params.attendance_file = "file"

C18_CreateBody ==
    calls # <<>> =>
        LET c == calls[1]
            b == c.body
        IN  /\ c.method = "POST"
            /\ c.api = "analysisApi.create"
            /\ IsSuffix(PathAnalyses, c.url)
            /\ c.url = baseUrl(env) \o PathAnalyses
            /\ Len(b) = IF FileSupplied THEN 9 ELSE 8
            /\ \A k \in 1..8 : b[k][1] = RequiredNames[k]
            /\ b[1][2] = NumToString(params.employee_id.v)
            /\ b[2][2] = NumToString(params.year.v)
            /\ b[3][2] = NumToString(params.daily_working_hours.v)
            /\ b[4][2] = NumToString(params.weekly_working_days.v)
            /\ b[5][2] = LeaveText("annual_leave_total")
            /\ b[6][2] = LeaveText("annual_leave_used")
            /\ b[7][2] = LeaveText("extra_leave_days")
            /\ b[8][2] = IF "holidays_data" \in DOMAIN params
                         THEN params.holidays_data ELSE <<"[", "]">>
            /\ (\E k \in 1..Len(b) : b[k][1] = "attendance_file")
                   <=> FileSupplied
            /\ FileSupplied => b[9] = <<"attendance_file", <<"file">> >>

C18_Witness ==
    /\ calls # <<>>
    /\ DOMAIN params =
           {"employee_id", "year", "daily_working_hours",
            "weekly_working_days", "attendance_file"}
    /\ params.attendance_file = "file"
    /\ calls[1].body[5] = <<"annual_leave_total", <<"0">> >>
    /\ calls[1].body[8] = <<"holidays_data", <<"[", "]">> >>
    /\ calls[1].body[9] = <<"attendance_file", <<"file">> >>

\* ------------------------------------------------------------------------
\* C19: there is no retry.  A request is issued only by the mount effect
\* (each of its read requests once, in one step, and never again), by a
\* user's accepted submit (one create request), or by the list re-fetch
\* that follows a create that succeeded (one read request); the step in
\* which a request fails (network failure, timeout, non-2xx, unreadable or
\* null body) issues none, and a request once issued is never re-sent.
\* ------------------------------------------------------------------------
NewCalls == {i \in 1..Len(calls') : i > Len(calls)}

IssuedByMount ==
    /\ mountState = "idle"
    /\ mountState' = "pending"
    /\ calls = <<>>
    /\ \A i \in NewCalls :
           /\ calls'[i].task = "mount"
           /\ calls'[i].api \in ReadApis
           /\ \A j \in NewCalls : calls'[j].api = calls'[i].api => j = i

IssuedBySubmit ==
    /\ SendsCreate
    /\ ~ui.submitting
    /\ ui'.submitting
    /\ calls'[Len(calls')].api \in CreateApis

IssuedByRefetch ==
    /\ Len(calls') = Len(calls) + 1
    /\ calls'[Len(calls')].task = "refetch"
    /\ calls'[Len(calls')].api = "employeeApi.getAll"
    /\ \E i \in CallIdx :
           /\ SettlesNow(i)
           /\ calls[i].api = "employeeApi.create"
           /\ calls'[i].outcome = "resolved"
           /\ Truthy(calls'[i].value)

C19_NoRetry ==
    [][/\ Len(calls') >= Len(calls)
       /\ \A i \in CallIdx :
              /\ calls'[i].api = calls[i].api
              /\ calls'[i].task = calls[i].task
              /\ calls'[i].url = calls[i].url
              /\ calls[i].phase = "settled" => calls'[i] = calls[i]
              /\ (SettlesNow(i) /\ FailedAfter(i)) => NewCalls = {}
       /\ NewCalls # {} =>
              IssuedByMount \/ IssuedBySubmit \/ IssuedByRefetch
       /\ mountState # "idle" =>
              \A i \in NewCalls : calls'[i].task # "mount"
      ]_vars

C19_Witness ==
    /\ route = "employees"
    /\ Len(calls) = 2
    /\ calls[1].fetch = "network"
    /\ calls[2].api = "employeeApi.create"
    /\ calls[2].fetch = "notok"
    /\ calls[2].phase = "settled"
    /\ ~ui.submitting

\* ------------------------------------------------------------------------
\* C20: a page's lifecycle is idle, loading, then success or error and
\* nothing more: the loading flag is true until the mount effect's fetch
\* settles (or the effect returns early), false from then on, and never
\* true again, also not while the employees list is fetched again after a
\* successful creation; the mount effect runs once.
\* ------------------------------------------------------------------------
C20_LoadingOnlyOnce ==
    [][/\ mountState = "idle" => ui.loading
       /\ ~ui.loading => ~ui'.loading
       /\ (ui.loading /\ ~ui'.loading) => mountState' = "done"
       /\ mountState' # mountState =>
              \/ mountState = "idle" /\ mountState' = "pending"
              \/ mountState = "idle" /\ mountState' = "done" /\ MountSkipped
              \/ mountState = "pending" /\ mountState' = "done"
                     /\ MountFetchSettled'
       /\ (\E i \in 1..Len(calls') :
               calls'[i].task = "refetch" /\ calls'[i].phase # "settled") =>
              ~ui'.loading
      ]_vars

C20_Witness ==
    /\ route = "employees"
    /\ mountState = "done"
    /\ ~ui.loading
    /\ \E i \in CallIdx :
           calls[i].task = "refetch" /\ calls[i].phase = "fetch"

\* ------------------------------------------------------------------------
\* C21: on the employees page, once every list request has settled the
\* list displayed is the response of the list request issued last (the
\* empty list if that request failed): a response of an older request never
\* overwrites the response of a newer one.
\* ------------------------------------------------------------------------
ListCalls == {i \in CallIdx : calls[i].api = "employeeApi.getAll"}

LastListCall == CHOOSE i \in ListCalls : \A j \in ListCalls : j <= i

C21_LatestResponseShown ==
    (/\ route = "employees"
     /\ ListCalls # {}
     /\ \A i \in ListCalls : calls[i].phase = "settled") =>
        ui.employees = OrEmpty(calls[LastListCall].value)

\* ------------------------------------------------------------------------
\* C22: on each form page at most one create request is outstanding at any
\* time: while one is, the submitting flag is true, so the submit control
\* is disabled, and no step starts a second one.
\* ------------------------------------------------------------------------
OutstandingCreates ==
    {i \in CallIdx : calls[i].api \in CreateApis /\ calls[i].phase # "settled"}

C22_OneCreateOutstanding ==
    [][/\ Cardinality(OutstandingCreates) <= 1
       /\ Cardinality(OutstandingCreates') <= 1
       /\ OutstandingCreates # {} =>
              /\ ui.submitting
              /\ route \in FormRoutes
              /\ \A i \in NewCalls : calls'[i].api \notin CreateApis
      ]_vars

C22_Witness ==
    /\ route = "analysis"
    /\ ui.submitting
    /\ Cardinality(OutstandingCreates) = 1
    /\ \E i \in CallIdx :
           /\ calls[i].api = "analysisApi.create"
           /\ calls[i].phase = "settled"

\* ------------------------------------------------------------------------
\* C23: the report detail page shows the "report not found" view, and never
\* the detail card, when the route id is not a positive integer (and then
\* no request is sent at all), when the analysis request got a non-2xx
\* status, and when either of its two requests rejected; the detail card is
\* shown only when the analysis request succeeded with a body.
\* ------------------------------------------------------------------------
\* the route parameter is the decimal text of a positive integer
IsPositiveIntegerText(p) ==
    /\ p.isString
    /\ p.value # <<>>
    /\ \A k \in 1..Len(p.value) : IsDigit(p.value[k])
    /\ DigitPrefixValue(p.value, 0) > 0

C23_NoRequestForBadId ==
    (route = "reportDetail" /\ ~IsPositiveIntegerText(param)) =>
        /\ calls = <<>>
        /\ ~ShowsDetail
        /\ ~ui.loading => ShowsNotFound

C23_FailureShowsNotFound ==
    (/\ route = "reportDetail"
     /\ mountState = "done"
     /\ Len(calls) = 2
     /\ \/ calls[1].fetch = "notok"
        \/ \E k \in 1..2 : calls[k].outcome = "rejected") =>
        ShowsNotFound /\ ~ShowsDetail

C23_CardOnlyOnSuccess ==
    ShowsDetail =>
        /\ Len(calls) = 2
        /\ calls[1].api = "analysisApi.getById"
        /\ calls[1].fetch = "ok"
        /\ calls[1].outcome = "resolved"
        /\ Truthy(calls[1].value)
        /\ ui.analysis = calls[1].value

C23_NotFoundCases ==
    /\ C23_NoRequestForBadId
    /\ C23_FailureShowsNotFound
    /\ C23_CardOnlyOnSuccess

\* ------------------------------------------------------------------------
\* C24: on the analysis page the form is visible only when the backend URL
\* is configured and the list of employees held is not empty; in the step
\* that makes it visible the list is the fetched one and the selected
\* employee_id is the id of its first employee; the step in which a create
\* settles successfully sets the attached file to none and leaves every
\* other form field as it was; the step in which a create fails leaves the
\* whole form as it was.
\* ------------------------------------------------------------------------
CreateSucceeded(i) ==
    calls'[i].outcome = "resolved" /\ Truthy(calls'[i].value)

C24_AnalysisFormFrame ==
    [][route = "analysis" =>
           /\ ShowsForm' => (hasBackendUrl(env) /\ ui'.employees # <<>>)
           /\ (~ShowsForm /\ ShowsForm') =>
                  /\ calls'[1].api = "employeeApi.getAll"
                  /\ ui'.employees = calls'[1].value.items
                  /\ ui'.form.employee_id = calls'[1].value.items[1].id.v
                  /\ ui'.form =
                         [InitialForm EXCEPT
                              !.employee_id = ui'.employees[1].id.v]
           /\ \A i \in CallIdx :
                  (SettlesNow(i) /\ calls[i].api = "analysisApi.create") =>
                      IF CreateSucceeded(i)
                      THEN /\ ui'.form =
                                  [ui.form EXCEPT !.attendance_file = "null"]
                           /\ ui'.form.employee_id = ui.form.employee_id
                           /\ ui'.form.year = ui.form.year
                      ELSE ui'.form = ui.form
      ]_vars

C24_Witness ==
    /\ route = "analysis"
    /\ ShowsForm
    /\ ui.form.employee_id = 2
    /\ ui.form.attendance_file = "null"
    /\ ui.message = Ok(MsgAnalysisCreated)
    /\ \E i \in CallIdx :
           /\ calls[i].api = "analysisApi.create"
           /\ Len(calls[i].body) = 9
           /\ calls[i].outcome = "resolved"
           /\ Truthy(calls[i].value)

====
